---- MODULE Spec2Model ----
(***************************************************************************)
(* Model of rss-morning's embedding pre-filter                             *)
(* (src/rss_morning/prefilter.py, src/rss_morning/db.py).                  *)
(*                                                                         *)
(* Floats are modelled as exact fixed-point integers: a vector component   *)
(* x is stored as x * Scale, a dot product / score / cosine / distance as  *)
(* its value * Scale * Scale.  All vectors used are rational unit vectors   *)
(* (Pythagorean triples over Scale), so normalisation, centroid averaging  *)
(* and dot products are exact in this representation.                      *)
(***************************************************************************)
EXTENDS FiniteSets, Integers, Sequences, TLC

VARIABLES
    cachedCentroids,  \* EmbeddingArticleFilter._cached_centroids (class level)
    embeddings,       \* rows of the embeddings table: <<url, backend_key>> -> blob
    pc,               \* "idle" | "returned": position of the caller of filter()
    call,             \* the filter() invocation whose result the caller holds
    result,           \* what that invocation returned and what it did
    previous,         \* the invocation before it, when the caller repeated it
    upserts,          \* the upsert_embeddings calls made directly on the table
    exported,         \* the file written by export_security_query_embeddings
    articleRows,      \* rows of the articles table: url -> cached article
    run,              \* the _collect_entries run whose outcome the caller holds
    selection         \* the select_recent_entries call whose result is held

vars == <<cachedCentroids, embeddings, pc, call, result, previous, upserts,
          exported, articleRows, run, selection>>

\* The variables of the pre-filter and of the article collection.
filterVars == <<cachedCentroids, embeddings, pc, call, result, previous,
                upserts, exported>>
collectVars == <<articleRows, run, selection>>

----------------------------------------------------------------------------
(* Bounds of the explored input space.                                     *)

MaxArticles == 3      \* longest article list handed to filter()
MaxCap == 3           \* largest configured max_cluster_size
MaxCacheArticles == 2 \* longest article list in the vector-cache scenarios
MaxUpserts == 2       \* longest recorded sequence of direct upsert_embeddings calls
MaxEntries == 3       \* longest entry list handed to select_recent_entries
MaxLimit == 3         \* largest limit handed to select_recent_entries
MaxFeeds == 2         \* most feeds of one run of _collect_entries

(* Fixed-point representation.                                             *)
Scale == 1000
One == Scale * Scale

----------------------------------------------------------------------------
(* Generic sequence helpers.                                               *)

Range(s) == {s[i] : i \in 1..Len(s)}

Min2(a, b) == IF a < b THEN a ELSE b
Max2(a, b) == IF a > b THEN a ELSE b

RECURSIVE SumSeq(_)
SumSeq(s) == IF s = <<>> THEN 0 ELSE Head(s) + SumSeq(Tail(s))

RECURSIVE FlattenSeq(_)
FlattenSeq(ss) == IF ss = <<>> THEN <<>> ELSE Head(ss) \o FlattenSeq(Tail(ss))

\* All sequences of pairwise distinct elements of S, of length 0..n.
RECURSIVE DistinctSeqs(_, _)
DistinctSeqs(S, n) ==
    IF n = 0 THEN {<<>>}
    ELSE LET shorter == DistinctSeqs(S, n - 1)
         IN  shorter \cup
             UNION {{Append(s, x) : x \in S \ Range(s)} :
                    s \in {t \in shorter : Len(t) = n - 1}}

----------------------------------------------------------------------------
(* Vector arithmetic (numpy / EmbeddingArticleFilter._dot / ._cosine).     *)

\* floor(sqrt(n)) by bisection on [lo, hi].
RECURSIVE ISqrtIn(_, _, _)
ISqrtIn(n, lo, hi) ==
    IF lo >= hi THEN lo
    ELSE LET mid == (lo + hi + 1) \div 2
         IN  IF mid * mid <= n THEN ISqrtIn(n, mid, hi) ELSE ISqrtIn(n, lo, mid - 1)

ISqrt(n) == ISqrtIn(n, 0, 4 * Scale)

\* np.linalg.norm(v), at Scale.
Norm(v) == ISqrt(SumSeq([i \in 1..Len(v) |-> v[i] * v[i]]))

\* arr / norm if norm else zeros_like(arr)         (prefilter.py 203-208, 317-321)
Normalise(v) ==
    LET n == Norm(v)
    IN  IF n # 0 THEN [i \in 1..Len(v) |-> (v[i] * Scale) \div n]
        ELSE [i \in 1..Len(v) |-> 0]

\* sum(l * r for l, r in zip(left, right)): zip stops at the shorter operand.
Dot(left, right) ==
    SumSeq([i \in 1..Min2(Len(left), Len(right)) |-> left[i] * right[i]])

\* np.dot raises ValueError on operands of different shapes.
ShapeMismatch(left, right) == Len(left) # Len(right)

\* _cosine(left, right); only called when ~ShapeMismatch(left, right).
Cosine(left, right) ==
    LET ln == Norm(left)
        rn == Norm(right)
    IN  IF ln = 0 \/ rn = 0 THEN 0
        ELSE LET value == (((Dot(left, right) * Scale) \div ln) * Scale) \div rn
             IN  Max2(Min2(value, One), -One)

\* round(x, 4) for x >= 0 at One: nearest multiple of One / 10^4, ties to even.
Round4(x) ==
    LET unit == One \div 10000
        q == x \div unit
        r == x % unit
    IN  IF 2 * r > unit \/ (2 * r = unit /\ q % 2 = 1) THEN (q + 1) * unit
        ELSE q * unit

\* np.mean(np.stack(vs), axis=0)
MeanVec(vs) ==
    [i \in 1..Len(vs[1]) |-> SumSeq([k \in 1..Len(vs) |-> vs[k][i]]) \div Len(vs)]

----------------------------------------------------------------------------
(* The embedding backend (external collaborator): a deterministic map from *)
(* (model, text) to a raw, not necessarily normalised vector.  Texts are   *)
(* sequences of tokens; the vector is determined by the first token.       *)

Models == {"m1", "m2"}

RawVec(token) ==
    CASE token = "X"   -> <<2000, 0>>      \* direction [1, 0]
      [] token = "Y"   -> <<0, 1000>>      \* [0, 1]
      [] token = "Z"   -> <<3, 4>>         \* direction [0.6, 0.8]
      [] token = "Q"   -> <<995, 100>>     \* [0.995, ~0.0999]
      [] token = "W"   -> <<21, -20>>      \* [~0.724, ~-0.690]
      [] token = "V"   -> <<3, -4>>        \* [0.6, -0.8], mirror image of Z
      [] token = "qa1" -> <<600, 800>>
      [] token = "qa2" -> <<600, -800>>    \* mean of qa1, qa2 points along [1, 0]
      [] token = "qb"  -> <<0, 1000>>
      [] token = "qg"  -> <<-280, 960>>    \* mirror image of [1, 0] about Z
      [] token = "Alpha" -> <<0, 500>>     \* a topic's name is a text too
      [] token = "Beta"  -> <<500, 0>>
      [] OTHER         -> <<0, 0>>

\* Vectors of different models are not comparable: m2 uses the mirrored space.
BackendVec(model, text) ==
    LET raw == IF text = <<>> THEN <<0, 0>> ELSE RawVec(text[1])
    IN  IF model = "m1" THEN raw ELSE <<raw[2], raw[1]>>

\* A fault is the single point of one invocation at which an external
\* collaborator raises: the n-th backend.embed call, the cache read, or the
\* cache write.  (The first exception ends the invocation, so one point
\* covers every behaviour.)
NoFault == [kind |-> "none", n |-> 0]
EmbedFault(n) == [kind |-> "embed", n |-> n]
GetFault == [kind |-> "get", n |-> 0]
UpsertFault == [kind |-> "upsert", n |-> 0]

\* Entries of the invocation's record of calls to external collaborators.
EmbedCall(texts) ==
    [op |-> "embed", texts |-> texts, urls |-> <<>>, model |-> "", rows |-> <<>>]
GetCall(urls, model) ==
    [op |-> "get", texts |-> <<>>, urls |-> urls, model |-> model, rows |-> <<>>]
UpsertCall(rows, model) ==
    [op |-> "upsert", texts |-> <<>>, urls |-> <<>>, model |-> model, rows |-> rows]

EmbedCallCount(log) == Cardinality({i \in 1..Len(log) : log[i].op = "embed"})

\* self._backend.embed(texts)
BackendEmbed(model, texts, fault, log) ==
    LET raised == fault.kind = "embed" /\ fault.n = EmbedCallCount(log) + 1
    IN  [err     |-> raised,
         vectors |-> IF raised THEN <<>>
                     ELSE [i \in 1..Len(texts) |-> BackendVec(model, texts[i])],
         log     |-> Append(log, EmbedCall(texts))]

----------------------------------------------------------------------------
(* The embeddings table (db.py): rows keyed by <<url, backend_key>>.       *)

\* json.dumps(vector).encode("utf-8")
Encode(vector) == [kind |-> "json", val |-> vector]

\* Blobs this program never writes but the table can hold: bytes that are
\* not valid UTF-8 / JSON, the JSON document null, and a JSON vector of
\* another dimension.
GarbageBlob == [kind |-> "garbage", val |-> <<>>]
NullBlob == [kind |-> "null", val |-> <<>>]
ShortVecBlob == [kind |-> "json", val |-> <<1000>>]

\* json.loads(blob.decode("utf-8")): raises, or returns the decoded value
\* (None for null, the list for an array).
Decode(blob) ==
    [raised |-> blob.kind = "garbage",
     isNone |-> blob.kind = "null",
     v      |-> blob.val]

\* db.get_embeddings(session, urls, backend_key)
get_embeddings(rows, urls, backend_key) ==
    LET hits == IF urls = <<>> THEN {}
                ELSE {u \in Range(urls) : <<u, backend_key>> \in DOMAIN rows}
    IN  [u \in hits |-> rows[<<u, backend_key>>]]

\* Mutation of upsert_embeddings: the rows to overwrite are looked up by url
\* alone, so the rows of every backend_key holding the url are overwritten.
upsert_embeddings_by_url(rows, data, backend_key) ==
    IF data = <<>> THEN rows
    ELSE LET urls == {data[i][1] : i \in 1..Len(data)}
             keys == {<<u, backend_key>> : u \in urls}
             blobOf(k) == LET i == CHOOSE j \in 1..Len(data) : data[j][1] = k[1]
                          IN  data[i][2]
         IN  [k \in DOMAIN rows \cup keys |->
                  IF k[1] \in urls THEN blobOf(k) ELSE rows[k]]

\* db.upsert_embeddings(session, data, backend_key); data is a sequence of
\* <<url, blob>> pairs with pairwise distinct urls (a dict).
upsert_embeddings(rows, data, backend_key) ==
    IF data = <<>> THEN rows
    ELSE LET keys == {<<data[i][1], backend_key>> : i \in 1..Len(data)}
             blobOf(k) == LET i == CHOOSE j \in 1..Len(data) : data[j][1] = k[1]
                          IN  data[i][2]
         IN  [k \in DOMAIN rows \cup keys |->
                  IF k \in keys THEN blobOf(k) ELSE rows[k]]

----------------------------------------------------------------------------
(* Items are dicts: records whose domain is the set of keys present.       *)

Has(item, key) == key \in DOMAIN item

SetField(item, key, value) ==
    [f \in DOMAIN item \cup {key} |-> IF f = key THEN value ELSE item[f]]

\* str(item.get("url"))
UrlKey(item) == IF Has(item, "url") THEN item.url ELSE "None"

\* str(item.get("url") or "")
UrlOrEmpty(item) == IF Has(item, "url") THEN item.url ELSE ""

TextField(item, key) == IF Has(item, key) THEN item[key] ELSE <<>>

IsSpace(t) == t \in {" ", "\n"}

RECURSIVE LStrip(_)
LStrip(s) == IF s # <<>> /\ IsSpace(Head(s)) THEN LStrip(Tail(s)) ELSE s

RECURSIVE RStrip(_)
RStrip(s) ==
    IF s # <<>> /\ IsSpace(s[Len(s)]) THEN RStrip(SubSeq(s, 1, Len(s) - 1)) ELSE s

RECURSIVE JoinLines(_)
JoinLines(parts) ==
    IF parts = <<>> THEN <<>>
    ELSE IF Len(parts) = 1 THEN parts[1]
    ELSE parts[1] \o <<"\n">> \o JoinLines(Tail(parts))

\* _compose_article_text(article)
_compose_article_text(article, max_article_length) ==
    LET all == <<TextField(article, "title"), TextField(article, "summary"),
                 TextField(article, "text")>>
        parts == SelectSeq(all, LAMBDA p : p # <<>>)
        joined == RStrip(LStrip(JoinLines(parts)))
    IN  SubSeq(joined, 1, Min2(Len(joined), max_article_length))

----------------------------------------------------------------------------
(* EmbeddingArticleFilter._embed_texts                                      *)

\* Mutation of CacheLookup: every article is embedded again.
CacheLookupAlwaysMiss(cached, url) ==
    [miss |-> TRUE, isNone |-> FALSE, v |-> <<>>]

\* One step of the loop at prefilter.py 343-365: the decoded cache entry of
\* position idx, or a miss.
CacheLookup(cached, url) ==
    IF url \in DOMAIN cached
    THEN LET d == Decode(cached[url])
         IN  IF d.raised THEN [miss |-> TRUE, isNone |-> FALSE, v |-> <<>>]
             ELSE [miss |-> FALSE, isNone |-> d.isNone, v |-> d.v]
    ELSE [miss |-> TRUE, isNone |-> FALSE, v |-> <<>>]

\* to_upsert[url] = blob for the dict kept as a sequence of <<url, blob>>.
DictPut(d, key, value) ==
    IF \E i \in 1..Len(d) : d[i][1] = key
    THEN [i \in 1..Len(d) |-> IF d[i][1] = key THEN <<key, value>> ELSE d[i]]
    ELSE Append(d, <<key, value>>)

RECURSIVE BuildUpsert(_, _, _, _)
BuildUpsert(new_vectors, missing_indices, urls, i) ==
    IF i = 0 THEN <<>>
    ELSE DictPut(BuildUpsert(new_vectors, missing_indices, urls, i - 1),
                 urls[missing_indices[i]], Encode(new_vectors[i]))

\* A slot of ordered_vectors: None, or a list of floats.
NoneSlot == [isNone |-> TRUE, v |-> <<>>]
VecSlot(v) == [isNone |-> FALSE, v |-> v]

\* The position among the missing indices that last filled slot idx (0: none).
LastFill(missing_indices, n, idx) ==
    LET js == {j \in 1..n : missing_indices[j] = idx}
    IN  IF js = {} THEN 0 ELSE CHOOSE j \in js : \A k \in js : k <= j

\* Mutation of _embed_texts: an exception of the backend is swallowed and
\* the vectors found in the cache are returned.
EmbedTextsSwallowingBackendError(config, texts, urls, rows, fault, log) ==
    IF ~config.session \/ urls = <<>>
    THEN LET r == BackendEmbed(config.model, texts, fault, log)
         IN  [err |-> r.err,
              vectors |-> [i \in 1..Len(r.vectors) |-> VecSlot(r.vectors[i])],
              rows |-> rows, log |-> r.log]
    ELSE
    LET backend_key == config.model
        log1 == Append(log, GetCall(urls, backend_key))
    IN  IF fault.kind = "get"
        THEN [err |-> TRUE, vectors |-> <<>>, rows |-> rows, log |-> log1]
        ELSE
        LET cached == get_embeddings(rows, urls, backend_key)
            n == Min2(Len(texts), Len(urls))
            look == [idx \in 1..n |-> CacheLookup(cached, urls[idx])]
            missing_indices == SelectSeq([idx \in 1..n |-> idx],
                                         LAMBDA idx : look[idx].miss)
            missing_texts == [j \in 1..Len(missing_indices) |->
                                  texts[missing_indices[j]]]
            fromCache == [idx \in 1..Len(texts) |->
                              IF idx <= n /\ ~look[idx].miss
                              THEN [isNone |-> look[idx].isNone, v |-> look[idx].v]
                              ELSE NoneSlot]
        IN  IF missing_texts = <<>>
            THEN [err |-> FALSE, vectors |-> fromCache, rows |-> rows, log |-> log1]
            ELSE
            LET r == BackendEmbed(config.model, missing_texts, fault, log1)
                m == Min2(Len(r.vectors), Len(missing_indices))
                ordered == [idx \in 1..Len(texts) |->
                               LET j == LastFill(missing_indices, m, idx)
                               IN  IF j # 0 THEN VecSlot(r.vectors[j])
                                   ELSE fromCache[idx]]
                to_upsert == BuildUpsert(r.vectors, missing_indices, urls, m)
                log2 == Append(r.log, UpsertCall(to_upsert, backend_key))
            IN  IF r.err
                THEN [err |-> FALSE, vectors |-> fromCache, rows |-> rows, log |-> r.log]
                ELSE IF fault.kind = "upsert"
                THEN [err |-> TRUE, vectors |-> <<>>, rows |-> rows, log |-> log2]
                ELSE [err |-> FALSE, vectors |-> ordered,
                      rows |-> upsert_embeddings(rows, to_upsert, backend_key),
                      log |-> log2]

\* Returns [err, vectors (slots), rows (the table afterwards), log].
_embed_texts(config, texts, urls, rows, fault, log) ==
    IF ~config.session \/ urls = <<>>
    THEN LET r == BackendEmbed(config.model, texts, fault, log)
         IN  [err |-> r.err,
              vectors |-> [i \in 1..Len(r.vectors) |-> VecSlot(r.vectors[i])],
              rows |-> rows, log |-> r.log]
    ELSE
    LET backend_key == config.model
        log1 == Append(log, GetCall(urls, backend_key))
    IN  IF fault.kind = "get"
        THEN [err |-> TRUE, vectors |-> <<>>, rows |-> rows, log |-> log1]
        ELSE
        LET cached == get_embeddings(rows, urls, backend_key)
            n == Min2(Len(texts), Len(urls))
            look == [idx \in 1..n |-> CacheLookup(cached, urls[idx])]
            missing_indices == SelectSeq([idx \in 1..n |-> idx],
                                         LAMBDA idx : look[idx].miss)
            missing_texts == [j \in 1..Len(missing_indices) |->
                                  texts[missing_indices[j]]]
            fromCache == [idx \in 1..Len(texts) |->
                              IF idx <= n /\ ~look[idx].miss
                              THEN [isNone |-> look[idx].isNone, v |-> look[idx].v]
                              ELSE NoneSlot]
        IN  IF missing_texts = <<>>
            THEN [err |-> FALSE, vectors |-> fromCache, rows |-> rows, log |-> log1]
            ELSE
            LET r == BackendEmbed(config.model, missing_texts, fault, log1)
                m == Min2(Len(r.vectors), Len(missing_indices))
                ordered == [idx \in 1..Len(texts) |->
                               LET j == LastFill(missing_indices, m, idx)
                               IN  IF j # 0 THEN VecSlot(r.vectors[j])
                                   ELSE fromCache[idx]]
                to_upsert == BuildUpsert(r.vectors, missing_indices, urls, m)
                log2 == Append(r.log, UpsertCall(to_upsert, backend_key))
            IN  IF r.err
                THEN [err |-> TRUE, vectors |-> <<>>, rows |-> rows, log |-> r.log]
                ELSE IF fault.kind = "upsert"
                THEN [err |-> TRUE, vectors |-> <<>>, rows |-> rows, log |-> log2]
                ELSE [err |-> FALSE, vectors |-> ordered,
                      rows |-> upsert_embeddings(rows, to_upsert, backend_key),
                      log |-> log2]

----------------------------------------------------------------------------
(* EmbeddingArticleFilter._get_category_centroids                           *)

\* Mutation of CentroidKey: the model is left out of the key.
CentroidKeyWithoutModel(config) ==
    <<{<<config.queries[i].name, config.queries[i].queries>> :
           i \in 1..Len(config.queries)},
      "">>

\* tuple(sorted((k, tuple(v)) for k, v in self._queries.items())), model:
\* the sorted tuple is a canonical form of the set of (name, queries) pairs.
CentroidKey(config) ==
    <<{<<config.queries[i].name, config.queries[i].queries>> :
           i \in 1..Len(config.queries)},
      config.model>>

\* The loop at prefilter.py 310-322 from topic i on; centroids is the dict
\* built so far, kept in insertion order as a sequence of [category, vector].
RECURSIVE BuildCentroids(_, _, _, _, _)
BuildCentroids(config, i, centroids, fault, log) ==
    IF i > Len(config.queries)
    THEN [err |-> FALSE, centroids |-> centroids, log |-> log]
    ELSE IF config.queries[i].queries = <<>>
    THEN BuildCentroids(config, i + 1, centroids, fault, log)
    ELSE LET r == BackendEmbed(config.model, config.queries[i].queries, fault, log)
         IN  IF r.err
             THEN [err |-> TRUE, centroids |-> <<>>, log |-> r.log]
             ELSE LET mean_vec == MeanVec(r.vectors)
                      entry == [category |-> config.queries[i].name,
                                vector |-> Normalise(mean_vec)]
                  IN  BuildCentroids(config, i + 1, Append(centroids, entry),
                                     fault, r.log)

\* Mutation of _get_category_centroids: the dict under construction is put
\* into the cache before the loop, so a failed build leaves an entry.
GetCategoryCentroidsCachingFirst(config, cache, fault, log) ==
    LET key == CentroidKey(config)
    IN  IF key \in DOMAIN cache
        THEN [err |-> FALSE, centroids |-> cache[key], cache |-> cache, log |-> log]
        ELSE LET b == BuildCentroids(config, 1, <<>>, fault, log)
             IN  [err |-> b.err, centroids |-> b.centroids,
                  cache |-> [k \in DOMAIN cache \cup {key} |->
                                 IF k = key THEN b.centroids ELSE cache[k]],
                  log |-> b.log]

\* Mutation of _get_category_centroids: the centroids are built on every call.
GetCategoryCentroidsRebuilding(config, cache, fault, log) ==
    LET key == CentroidKey(config)
        b == BuildCentroids(config, 1, <<>>, fault, log)
    IN  IF b.err
        THEN [err |-> TRUE, centroids |-> <<>>, cache |-> cache, log |-> b.log]
        ELSE [err |-> FALSE, centroids |-> b.centroids,
              cache |-> [k \in DOMAIN cache \cup {key} |->
                             IF k = key THEN b.centroids ELSE cache[k]],
              log |-> b.log]

\* Returns [err, centroids, cache (the class-level dict afterwards), log].
_get_category_centroids(config, cache, fault, log) ==
    LET key == CentroidKey(config)
    IN  IF key \in DOMAIN cache
        THEN [err |-> FALSE, centroids |-> cache[key], cache |-> cache, log |-> log]
        ELSE LET b == BuildCentroids(config, 1, <<>>, fault, log)
             IN  IF b.err
                 THEN [err |-> TRUE, centroids |-> <<>>, cache |-> cache,
                       log |-> b.log]
                 ELSE [err |-> FALSE, centroids |-> b.centroids,
                       cache |-> [k \in DOMAIN cache \cup {key} |->
                                      IF k = key THEN b.centroids ELSE cache[k]],
                       log |-> b.log]

----------------------------------------------------------------------------
(* EmbeddingArticleFilter._score_against_centroids                          *)

\* The loop at prefilter.py 461-465 from centroid i on; best.none stands for
\* best_cat = None, best_score = -inf.
RECURSIVE ScoreLoop(_, _, _, _)
ScoreLoop(article_vector, centroids, i, best) ==
    IF i > Len(centroids) THEN best
    ELSE LET score == Dot(article_vector, centroids[i].vector)
         IN  ScoreLoop(article_vector, centroids, i + 1,
                       IF best.none \/ score > best.score
                       THEN [none |-> FALSE, category |-> centroids[i].category,
                             score |-> score]
                       ELSE best)

\* Mutation of _score_against_centroids: the first centroid always wins.
ScoreFirstCentroid(article_vector, centroids) ==
    IF centroids = <<>> THEN [none |-> TRUE, category |-> "", score |-> 0]
    ELSE [none |-> FALSE, category |-> centroids[1].category,
          score |-> Dot(article_vector, centroids[1].vector)]

_score_against_centroids(article_vector, centroids) ==
    ScoreLoop(article_vector, centroids, 1,
              [none |-> TRUE, category |-> "", score |-> 0])

----------------------------------------------------------------------------
(* EmbeddingArticleFilter.filter                                            *)

\* np.asarray(vector, dtype=float) followed by the normalisation at 203-208.
\* None becomes a 0-d nan array and stays one.
NormaliseSlot(slot) ==
    IF slot.isNone THEN slot ELSE VecSlot(Normalise(slot.v))

\* scored_by_category[best_cat].append(item), the dict kept in insertion
\* order as a sequence of [category, members]; members are positions in
\* materialized.
BucketAppend(buckets, category, idx) ==
    IF \E b \in 1..Len(buckets) : buckets[b].category = category
    THEN [b \in 1..Len(buckets) |->
              IF buckets[b].category = category
              THEN [buckets[b] EXCEPT !.members = Append(@, idx)]
              ELSE buckets[b]]
    ELSE Append(buckets, [category |-> category, members |-> <<idx>>])

\* Mutation of BelowThreshold: an item scoring exactly the threshold is dropped.
BelowOrAtThreshold(best, threshold) == best.none \/ best.score <= threshold

\* if best_cat is None or best_score < threshold: continue
BelowThreshold(best, threshold) == best.none \/ best.score < threshold

\* The loop at prefilter.py 225-240 from position i on.  Iterating a None
\* vector inside _dot raises TypeError.
RECURSIVE ScoringLoop(_, _, _, _, _, _)
ScoringLoop(config, materialized, article_vectors, centroids, i, buckets) ==
    IF i > Min2(Len(materialized), Len(article_vectors))
    THEN [err |-> FALSE, materialized |-> materialized, buckets |-> buckets]
    ELSE IF article_vectors[i].isNone /\ centroids # <<>>
    THEN [err |-> TRUE, materialized |-> materialized, buckets |-> buckets]
    ELSE
    LET best == _score_against_centroids(article_vectors[i].v, centroids)
    IN  IF BelowThreshold(best, config.threshold)
        THEN ScoringLoop(config, materialized, article_vectors, centroids,
                         i + 1, buckets)
        ELSE
        LET original ==
                SetField(SetField(SetField(materialized[i],
                    "prefilter_score", best.score),
                    "category", best.category),
                    "prefilter_match", best.category)
        IN  ScoringLoop(config, [materialized EXCEPT ![i] = original],
                        article_vectors, centroids, i + 1,
                        BucketAppend(buckets, best.category, i))

\* items.sort(key=lambda x: x.score, reverse=True): stable, descending.
RECURSIVE InsertDesc(_, _, _)
InsertDesc(sorted, idx, score) ==
    IF sorted = <<>> THEN <<idx>>
    ELSE IF score[Head(sorted)] >= score[idx]
    THEN <<Head(sorted)>> \o InsertDesc(Tail(sorted), idx, score)
    ELSE <<idx>> \o sorted

RECURSIVE SortDesc(_, _, _)
SortDesc(members, n, score) ==
    IF n = 0 THEN <<>>
    ELSE InsertDesc(SortDesc(members, n - 1, score), members[n], score)

\* Mutation of SlicePrefix: one item too many is kept.
SlicePrefixOneMore(items, max_size) ==
    SubSeq(items, 1, Min2(max_size + 1, Len(items)))

\* items[:max_size]
SlicePrefix(items, max_size) ==
    IF max_size >= 0 THEN SubSeq(items, 1, Min2(max_size, Len(items)))
    ELSE SubSeq(items, 1, Max2(Len(items) + max_size, 0))

\* kernel = kept_items[0]
Kernel(kept_items) == kept_items[1]

\* Mutation of Others: the kernel is listed among its own others.
OthersWithKernel(kept_items) == kept_items

\* others = kept_items[1:]
Others(kept_items) == Tail(kept_items)

\* Mutation of Retain: only the kernel of a bucket is returned.
RetainKernelOnly(retained, kept_items) == Append(retained, kept_items[1])

\* for item in kept_items: retained.append(item.article)
Retain(retained, kept_items) == retained \o kept_items

\* Mutation of OthersLoop: the non-kernel items are not given an empty
\* other_urls.
RECURSIVE OthersLoopKernelOnly(_, _, _, _, _, _)
OthersLoopKernelOnly(materialized, article_vectors, kernel, others, j, other_entries) ==
    IF j > Len(others)
    THEN [err |-> FALSE, materialized |-> materialized,
          other_entries |-> other_entries]
    ELSE IF ShapeMismatch(article_vectors[kernel].v, article_vectors[others[j]].v)
    THEN [err |-> TRUE, materialized |-> materialized,
          other_entries |-> other_entries]
    ELSE OthersLoopKernelOnly(materialized, article_vectors, kernel, others,
             j + 1,
             Append(other_entries,
                    [url |-> UrlOrEmpty(materialized[others[j]]),
                     distance |-> Round4(Max2(0, One -
                         Cosine(article_vectors[kernel].v,
                                article_vectors[others[j]].v)))]))

\* The loop at prefilter.py 269-279 from position j of others on.
RECURSIVE OthersLoop(_, _, _, _, _, _)
OthersLoop(materialized, article_vectors, kernel, others, j, other_entries) ==
    IF j > Len(others)
    THEN [err |-> FALSE, materialized |-> materialized,
          other_entries |-> other_entries]
    ELSE IF ShapeMismatch(article_vectors[kernel].v, article_vectors[others[j]].v)
    THEN [err |-> TRUE, materialized |-> materialized,
          other_entries |-> other_entries]
    ELSE
    LET cosine == Cosine(article_vectors[kernel].v, article_vectors[others[j]].v)
        dist == Max2(0, One - cosine)
        entry == [url |-> UrlOrEmpty(materialized[others[j]]),
                  distance |-> Round4(dist)]
    IN  OthersLoop([materialized EXCEPT
                        ![others[j]] = SetField(@, "other_urls", <<>>)],
                   article_vectors, kernel, others, j + 1,
                   Append(other_entries, entry))

\* The loop at prefilter.py 245-285 from bucket b on; retained holds
\* positions in materialized.
RECURSIVE BucketsLoop(_, _, _, _, _, _)
BucketsLoop(config, materialized, article_vectors, buckets, b, retained) ==
    IF b > Len(buckets)
    THEN [err |-> FALSE, materialized |-> materialized, retained |-> retained]
    ELSE
    LET score == [i \in 1..Len(materialized) |->
                      IF Has(materialized[i], "prefilter_score")
                      THEN materialized[i].prefilter_score ELSE 0]
        items == SortDesc(buckets[b].members, Len(buckets[b].members), score)
        kept_items == SlicePrefix(items, config.max_cluster_size)
    IN  IF kept_items = <<>>
        THEN BucketsLoop(config, materialized, article_vectors, buckets,
                         b + 1, retained)
        ELSE
        LET kernel == Kernel(kept_items)
            others == Others(kept_items)
            o == OthersLoop(materialized, article_vectors, kernel, others, 1, <<>>)
        IN  IF o.err
            THEN [err |-> TRUE, materialized |-> o.materialized,
                  retained |-> retained]
            ELSE BucketsLoop(config,
                     [o.materialized EXCEPT
                          ![kernel] = SetField(@, "other_urls", o.other_entries)],
                     article_vectors, buckets, b + 1,
                     Retain(retained, kept_items))

\* What one invocation of filter leaves behind: outcome is "empty" (return []
\* at 190), "no_centroids" (196), "no_vectors" (217), "error" (the except
\* clause at 293-297) or "ok" (292); raisedAt names the step that raised.
Outcome(outcome, raisedAt, items, cache, rows, log) ==
    [outcome |-> outcome, raisedAt |-> raisedAt, items |-> items,
     cache |-> cache, rows |-> rows, log |-> log]

\* filter from line 287 on: r is what the loop over the buckets produced.
FilterReturn(c, e, r) ==
    IF r.err
    THEN Outcome("error", "other_urls", r.materialized, c.cache, e.rows, e.log)
    ELSE Outcome("ok", "none",
                 [k \in 1..Len(r.retained) |-> r.materialized[r.retained[k]]],
                 c.cache, e.rows, e.log)

\* filter from line 242 on: s is what the scoring loop produced.
FilterBuckets(config, article_vectors, c, e, s) ==
    IF s.err
    THEN Outcome("error", "scoring", s.materialized, c.cache, e.rows, e.log)
    ELSE FilterReturn(c, e,
             BucketsLoop(config, s.materialized, article_vectors, s.buckets,
                         1, <<>>))

\* filter from line 211 on: article_vectors are the normalised vectors.
FilterScore(config, materialized, article_vectors, c, e) ==
    IF article_vectors = <<>>
    THEN Outcome("no_vectors", "none", materialized, c.cache, e.rows, e.log)
    ELSE FilterBuckets(config, article_vectors, c, e,
             ScoringLoop(config, materialized, article_vectors, c.centroids,
                         1, <<>>))

\* filter from line 201 on: e is what _embed_texts returned.
FilterNormalise(config, materialized, c, e) ==
    IF e.err
    THEN Outcome("error", "embed", materialized, c.cache, e.rows, e.log)
    ELSE FilterScore(config, materialized,
             [i \in 1..Len(e.vectors) |-> NormaliseSlot(e.vectors[i])], c, e)

\* filter from line 194 on: c is what _get_category_centroids returned.
FilterEmbed(config, materialized, rows, fault, c) ==
    IF c.err
    THEN Outcome("error", "centroids", materialized, c.cache, rows, c.log)
    ELSE IF c.centroids = <<>>
    THEN Outcome("no_centroids", "none", materialized, c.cache, rows, c.log)
    ELSE FilterNormalise(config, materialized, c,
             _embed_texts(config,
                 [i \in 1..Len(materialized) |->
                      _compose_article_text(materialized[i],
                                            config.max_article_length)],
                 [i \in 1..Len(materialized) |-> UrlKey(materialized[i])],
                 rows, fault, c.log))

\* Mutation of FilterRun: the early return on an empty list is missing.
FilterRunWithoutEmptyReturn(config, articles, cluster_threshold, fault, cache, rows) ==
    FilterEmbed(config, articles, rows, fault,
        _get_category_centroids(config, cache, fault, <<>>))

\* One invocation of filter(articles, cluster_threshold=...) by an instance
\* with the given config, on the class-level centroid cache and the
\* embeddings table.  cluster_threshold (<<>> for None, <<t>> for a float) and
\* rng are accepted by filter and never read by its body.
FilterRun(config, articles, cluster_threshold, fault, cache, rows) ==
    IF articles = <<>>
    THEN Outcome("empty", "none", <<>>, cache, rows, <<>>)
    ELSE FilterEmbed(config, articles, rows, fault,
             _get_category_centroids(config, cache, fault, <<>>))

----------------------------------------------------------------------------
(* Inputs: articles, topic configurations, filter configurations.          *)

ArtX == [url |-> "uX", title |-> <<"X">>]
ArtY == [url |-> "uY", title |-> <<"Y">>]
ArtZ == [url |-> "uZ", title |-> <<"Z">>, category |-> "feed"]
ArtQ == [url |-> "uQ", title |-> <<"Q">>, summary |-> <<"s">>]

\* A second item under the url of ArtX with the text of ArtY.
ArtXY == [url |-> "uX", title |-> <<"Y">>]

Articles == {ArtX, ArtY, ArtZ, ArtQ}
CacheArticles == {ArtX, ArtQ, ArtZ}

Alpha == [name |-> "Alpha", queries |-> <<<<"qa1">>, <<"qa2">>>>]
Beta == [name |-> "Beta", queries |-> <<<<"qb">>>>]
Gamma == [name |-> "Gamma", queries |-> <<<<"qg">>>>]

\* The configured topic dicts, in their configured (insertion) order.
TopicOrders == {<<Alpha, Beta>>, <<Beta, Alpha>>, <<Alpha, Gamma>>, <<Gamma, Alpha>>}

Thresholds == {600000, 700000, 850000}

DefaultMaxArticleLength == 5000

Config(queries, model, threshold, max_cluster_size, session) ==
    [queries |-> queries, model |-> model, threshold |-> threshold,
     max_cluster_size |-> max_cluster_size, session |-> session,
     max_article_length |-> DefaultMaxArticleLength]

\* Instances without a session factory: scoring, ranking and capping.
RankConfigs ==
    {Config(q, "m1", t, c, FALSE) :
         q \in TopicOrders, t \in Thresholds, c \in 0..MaxCap}
RankInputs == DistinctSeqs(Articles, MaxArticles)
RankFaults == {NoFault}

\* Instances with a session factory: the vector cache and failures.
CacheConfigs ==
    {Config(q, "m1", 700000, 2, TRUE) : q \in {<<Alpha, Beta>>}}
CacheInputs == DistinctSeqs(CacheArticles, MaxCacheArticles)
CacheFaults == {NoFault, EmbedFault(1), EmbedFault(2), EmbedFault(3),
                GetFault, UpsertFault}
ForeignBlobs == {GarbageBlob, NullBlob, ShortVecBlob}

\* Instances as runner.execute builds them (default threshold aside), called
\* with a cluster_threshold: None, the runner's default, and 0.99.
DefaultMaxClusterSize == 5
DefaultClusterThreshold == 840000
ClusterConfigs ==
    {Config(q, m, 700000, DefaultMaxClusterSize, FALSE) :
         q \in {<<Alpha, Beta>>, <<Beta, Alpha>>}, m \in Models}
ClusterThresholds == {<<>>, <<DefaultClusterThreshold>>, <<990000>>}

\* Instances of one process that differ in topic set, topic order or model;
\* the backend may raise while the second topic's queries are embedded.
SignatureConfigs ==
    {Config(q, m, 700000, DefaultMaxClusterSize, FALSE) :
         q \in {<<Alpha, Beta>>, <<Beta, Alpha>>, <<Alpha, Gamma>>}, m \in Models}
SignatureFaults == {NoFault, EmbedFault(2)}

\* Instances whose invocation the caller repeats, with and without a
\* session factory; the items need not have pairwise distinct urls.
RepeatConfigs ==
    {Config(<<Alpha, Beta>>, "m1", 700000, 2, session) : session \in BOOLEAN}
RepeatInputs == DistinctSeqs({ArtX, ArtXY, ArtY, ArtQ}, MaxCacheArticles)

\* Instances of one signature whose build of the centroids may fail at the
\* first or the second topic, and whose caller invokes filter again.
RetryConfigs ==
    {Config(q, m, 700000, DefaultMaxClusterSize, FALSE) :
         q \in {<<Alpha, Beta>>, <<Beta, Alpha>>}, m \in Models}
RetryFaults == {NoFault, EmbedFault(1), EmbedFault(2)}

\* Items with and without a url field, filtered through the vector cache.
ArtNoUrlX == [title |-> <<"X">>]
ArtNoUrlY == [title |-> <<"Y">>]
SharedConfigs == {Config(<<Alpha, Beta>>, "m1", 700000, 2, TRUE)}
SharedInputs ==
    DistinctSeqs({ArtX, ArtQ, ArtNoUrlX, ArtNoUrlY}, MaxCacheArticles)

\* Items that land in one bucket (Alpha) on both sides of its centroid, two
\* of them (Z, V) with equal scores; the caller may hand them over in any
\* order.
ArtW == [url |-> "uW", title |-> <<"W">>]
ArtV == [url |-> "uV", title |-> <<"V">>]
OrderConfigs ==
    {Config(<<Alpha, Gamma>>, "m1", 600000, c, FALSE) : c \in 0..MaxCap}
OrderInputs == DistinctSeqs({ArtQ, ArtW, ArtZ, ArtV}, MaxArticles)
Reorderings(articles) ==
    {p \in [1..Len(articles) -> Range(articles)] : Range(p) = Range(articles)}

----------------------------------------------------------------------------
(* The state machine.                                                      *)

NoCall == [config |-> Config(<<>>, "", 0, 0, FALSE), articles |-> <<>>,
           cluster_threshold |-> <<>>, fault |-> NoFault,
           cacheBefore |-> <<>>, rowsBefore |-> <<>>]
NoResult == [outcome |-> "none", raisedAt |-> "none", items |-> <<>>,
             log |-> <<>>]
NoPrevious == [call |-> NoCall, result |-> NoResult]
NoFile == [model |-> "", threshold |-> 0, queries |-> <<>>, embeddings |-> <<>>]
NoRun == [state |-> "none"]
NoSelection == [state |-> "none"]

Init ==
    /\ cachedCentroids = <<>>
    /\ embeddings = <<>>
    /\ pc = "idle"
    /\ call = NoCall
    /\ result = NoResult
    /\ previous = NoPrevious
    /\ upserts = <<>>
    /\ exported = NoFile
    /\ articleRows = <<>>
    /\ run = NoRun
    /\ selection = NoSelection

\* The effects of an invocation that ran as r: the class-level centroid
\* cache, the embeddings table and the list handed back to the caller.
Leave(r) ==
    /\ cachedCentroids' = r.cache
    /\ embeddings' = r.rows
    /\ result' = [outcome |-> r.outcome, raisedAt |-> r.raisedAt,
                  items |-> r.items, log |-> r.log]

\* filter(articles, cluster_threshold=ct) on an instance constructed with
\* config; call keeps the arguments and what the two caches held on entry.
Filter(configs, inputs, cluster_thresholds, faults) ==
    /\ pc = "idle"
    /\ \E config \in configs, articles \in inputs,
          ct \in cluster_thresholds, fault \in faults :
         /\ call' = [config |-> config, articles |-> articles,
                     cluster_threshold |-> ct, fault |-> fault,
                     cacheBefore |-> cachedCentroids,
                     rowsBefore |-> embeddings]
         /\ Leave(FilterRun(config, articles, ct, fault, cachedCentroids,
                            embeddings))
    /\ pc' = "returned"
    /\ UNCHANGED <<previous, upserts, exported, collectVars>>

\* The caller drops the returned list.
Return ==
    /\ pc = "returned"
    /\ pc' = "idle"
    /\ call' = NoCall
    /\ result' = NoResult
    /\ previous' = NoPrevious
    /\ UNCHANGED <<cachedCentroids, embeddings, upserts, exported, collectVars>>

\* Another writer of the embeddings table stores a blob for an article url.
ForeignWrite ==
    /\ pc = "idle"
    /\ \E a \in CacheArticles, blob \in ForeignBlobs :
         embeddings' = upsert_embeddings(embeddings, <<<<a.url, blob>>>>, "m1")
    /\ UNCHANGED <<cachedCentroids, pc, call, result, previous, upserts, exported,
                   collectVars>>

\* The caller runs filter once more with the same configuration on the same
\* items (a second execute() in the process: a new instance, equal items).
FilterAgain ==
    /\ pc = "returned"
    /\ previous = NoPrevious
    /\ previous' = [call |-> call, result |-> result]
    /\ call' = [call EXCEPT !.cacheBefore = cachedCentroids,
                            !.rowsBefore = embeddings]
    /\ Leave(FilterRun(call.config, call.articles, call.cluster_threshold,
                       call.fault, cachedCentroids, embeddings))
    /\ UNCHANGED <<pc, upserts, exported, collectVars>>

RankFilter == Filter(RankConfigs, RankInputs, {<<>>}, RankFaults)
CacheFilter == Filter(CacheConfigs, CacheInputs, {<<>>}, CacheFaults)
ClusterFilter == Filter(ClusterConfigs, RankInputs, ClusterThresholds, RankFaults)

Next == RankFilter \/ Return
Spec == Init /\ [][Next]_vars

NextCache == CacheFilter \/ ForeignWrite \/ Return
SpecCache == Init /\ [][NextCache]_vars

NextCluster == ClusterFilter \/ Return
SpecCluster == Init /\ [][NextCluster]_vars

SignatureFilter == Filter(SignatureConfigs, RankInputs, {<<>>}, SignatureFaults)

NextSignature == SignatureFilter \/ Return
SpecSignature == Init /\ [][NextSignature]_vars

RepeatFilter == Filter(RepeatConfigs, RepeatInputs, {<<>>}, RankFaults)

NextRepeat == RepeatFilter \/ FilterAgain \/ Return
SpecRepeat == Init /\ [][NextRepeat]_vars

\* The caller runs filter once more with the same configuration on the same
\* items handed over in another order.
FilterReordered ==
    /\ pc = "returned"
    /\ previous = NoPrevious
    /\ \E articles \in Reorderings(call.articles) \ {call.articles} :
         /\ previous' = [call |-> call, result |-> result]
         /\ call' = [call EXCEPT !.articles = articles,
                                 !.cacheBefore = cachedCentroids,
                                 !.rowsBefore = embeddings]
         /\ Leave(FilterRun(call.config, articles, call.cluster_threshold,
                            call.fault, cachedCentroids, embeddings))
    /\ UNCHANGED <<pc, upserts, exported, collectVars>>

\* The next invocation in the process on the same items, by an instance
\* with the signature of the last one.
FilterRetry ==
    /\ pc = "returned"
    /\ previous = NoPrevious
    /\ \E config \in RetryConfigs, fault \in RetryFaults :
         /\ CentroidKey(config) = CentroidKey(call.config)
         /\ previous' = [call |-> call, result |-> result]
         /\ call' = [call EXCEPT !.config = config, !.fault = fault,
                                 !.cacheBefore = cachedCentroids,
                                 !.rowsBefore = embeddings]
         /\ Leave(FilterRun(config, call.articles, call.cluster_threshold,
                            fault, cachedCentroids, embeddings))
    /\ UNCHANGED <<pc, upserts, exported, collectVars>>

RetryFilter == Filter(RetryConfigs, CacheInputs, {<<>>}, RetryFaults)

NextRetry == RetryFilter \/ FilterRetry \/ Return
SpecRetry == Init /\ [][NextRetry]_vars

SharedFilter == Filter(SharedConfigs, SharedInputs, {<<>>}, RankFaults)

NextShared == SharedFilter \/ Return
SpecShared == Init /\ [][NextShared]_vars

OrderFilter == Filter(OrderConfigs, OrderInputs, {<<>>}, RankFaults)

NextOrder == OrderFilter \/ FilterReordered \/ Return
SpecOrder == Init /\ [][NextOrder]_vars

----------------------------------------------------------------------------
(* _embed_texts called directly with texts and urls, on an instance with a *)
(* session factory; the same url may stand at several positions.          *)

EmbedPairs ==
    {[text |-> <<"X">>, url |-> "uX"], [text |-> <<"Y">>, url |-> "uX"],
     [text |-> <<"Q">>, url |-> "uQ"]}
EmbedInputs == DistinctSeqs(EmbedPairs, MaxCacheArticles)
EmbedFaults == {NoFault, EmbedFault(1), GetFault, UpsertFault}

\* _embed_texts returns or raises: the table is written, the outcome kept.
EmbedLeave(e) ==
    /\ embeddings' = e.rows
    /\ result' = [err |-> e.err, vectors |-> e.vectors, log |-> e.log]

\* self._embed_texts(texts, urls=urls)
EmbedTexts ==
    /\ pc = "idle"
    /\ \E config \in CacheConfigs, pairs \in EmbedInputs, fault \in EmbedFaults :
         /\ call' = [config |-> config, fault |-> fault,
                     texts |-> [i \in 1..Len(pairs) |-> pairs[i].text],
                     urls |-> [i \in 1..Len(pairs) |-> pairs[i].url],
                     rowsBefore |-> embeddings]
         /\ EmbedLeave(_embed_texts(config,
                                    [i \in 1..Len(pairs) |-> pairs[i].text],
                                    [i \in 1..Len(pairs) |-> pairs[i].url],
                                    embeddings, fault, <<>>))
    /\ pc' = "returned"
    /\ UNCHANGED <<cachedCentroids, previous, upserts, exported, collectVars>>

NextEmbed == EmbedTexts \/ ForeignWrite \/ Return
SpecEmbed == Init /\ [][NextEmbed]_vars

----------------------------------------------------------------------------
(* The embeddings table used directly (db.get_embeddings /                 *)
(* db.upsert_embeddings), as src/tests/test_db.py does.                    *)

DbUrls == {"uX", "uQ"}
DbBlobs == {Encode(<<1000, 0>>), Encode(<<0, 1000>>)}

\* The dicts handed to upsert_embeddings: at most two urls, in either
\* insertion order.
DbData ==
    {<<>>}
    \cup {<<<<u, b>>>> : u \in DbUrls, b \in DbBlobs}
    \cup UNION {{<<<<u1, b1>>, <<u2, b2>>>> :
                     u2 \in DbUrls \ {u1}, b1 \in DbBlobs, b2 \in DbBlobs} :
                 u1 \in DbUrls}

\* upsert_embeddings(session, data, backend_key).  session.commit() either
\* succeeds or raises; on a raise the session is rolled back and the
\* exception propagates (db.py 176-180).
UpsertEmbeddings ==
    /\ pc = "idle"
    /\ Len(upserts) < MaxUpserts
    /\ \E data \in DbData, backend_key \in Models, commit_raises \in BOOLEAN :
         LET raised == data # <<>> /\ commit_raises
         IN  /\ embeddings' = IF raised THEN embeddings
                              ELSE upsert_embeddings(embeddings, data, backend_key)
             /\ upserts' = Append(upserts, [data |-> data,
                                            backend_key |-> backend_key,
                                            raised |-> raised])
    /\ UNCHANGED <<cachedCentroids, pc, call, result, previous, exported,
                   collectVars>>

NextDb == UpsertEmbeddings
SpecDb == Init /\ [][NextDb]_vars

----------------------------------------------------------------------------
(* export_security_query_embeddings and the instance built with the path   *)
(* of the file it wrote.                                                   *)

\* list(filter_layer.queries): iterating the topic dict yields its keys,
\* the topic names, each a text of one token.
QueryList(queries) == [i \in 1..Len(queries) |-> <<queries[i].name>>]

\* The payload written at prefilter.py 532-540; e is what
\* filter_layer._embed_texts(query_list) returned.
ExportPayload(config, e) ==
    [model |-> config.model,
     threshold |-> config.threshold,
     queries |-> QueryList(config.queries),
     embeddings |-> [i \in 1..Len(e.vectors) |-> e.vectors[i].v]]

\* destination.write_text(...) at 540 is reached only if _embed_texts
\* returned; otherwise the file stays as it was.
ExportWrite(config, e) == IF e.err THEN exported ELSE ExportPayload(config, e)

\* export_security_query_embeddings(output_path, config=..., queries=...):
\* the exporting instance has no session factory; when the backend raises
\* nothing is written.
ExportConfigs ==
    {Config(<<Alpha, Beta>>, m, t, DefaultMaxClusterSize, FALSE) :
         m \in Models, t \in {600000, 700000}}

export_security_query_embeddings ==
    /\ pc = "idle"
    /\ \E config \in ExportConfigs, fault \in {NoFault, EmbedFault(1)} :
         exported' =
             ExportWrite(config,
                 _embed_texts(config, QueryList(config.queries), <<>>,
                              <<>>, fault, <<>>))
    /\ UNCHANGED <<cachedCentroids, embeddings, pc, call, result, previous,
                   upserts, collectVars>>

\* Mutation of __init__: the embeddings of a file with the instance's model
\* and topic names become the instance's topic anchors.
InitFromFile(config, query_embeddings_path) ==
    IF /\ query_embeddings_path.model = config.model
       /\ query_embeddings_path.queries = QueryList(config.queries)
    THEN [config EXCEPT !.queries =
              [i \in 1..Len(config.queries) |->
                   [name |-> config.queries[i].name,
                    queries |-> <<query_embeddings_path.queries[i]>>]]]
    ELSE config

\* EmbeddingArticleFilter.__init__(query_embeddings_path=..., queries=...,
\* config=...): the instance keeps the config and the topic dict;
\* query_embeddings_path is accepted and never read (prefilter.py 172-173).
__init__(config, query_embeddings_path) == config

\* filter on an instance constructed with the path of the exported file, as
\* runner.execute does with pre_filter_embeddings_path.
FileFilter ==
    /\ pc = "idle"
    /\ exported # NoFile
    /\ \E config \in ClusterConfigs, articles \in RankInputs :
         /\ call' = [config |-> config, articles |-> articles,
                     cluster_threshold |-> <<>>, fault |-> NoFault,
                     cacheBefore |-> cachedCentroids,
                     rowsBefore |-> embeddings,
                     query_embeddings_path |-> exported]
         /\ Leave(FilterRun(__init__(config, exported), articles, <<>>,
                            NoFault, cachedCentroids, embeddings))
    /\ pc' = "returned"
    /\ UNCHANGED <<previous, upserts, exported, collectVars>>

NextExport == export_security_query_embeddings \/ FileFilter \/ Return
SpecExport == Init /\ [][NextExport]_vars

----------------------------------------------------------------------------
(* feeds.select_recent_entries.  Timestamps are integers; a cutoff is <<>>  *)
(* for None and <<c>> for a datetime (every datetime is truthy).           *)

\* The loop at feeds.py 103-117.
RECURSIVE SelectLoop(_, _, _, _, _, _)
SelectLoop(sorted_entries, i, limit, cutoff, seen_links, unique_entries) ==
    IF i > Len(sorted_entries) THEN unique_entries
    ELSE IF cutoff # <<>> /\ sorted_entries[i].published < cutoff[1]
    THEN SelectLoop(sorted_entries, i + 1, limit, cutoff, seen_links,
                    unique_entries)
    ELSE IF sorted_entries[i].link \in seen_links
    THEN SelectLoop(sorted_entries, i + 1, limit, cutoff, seen_links,
                    unique_entries)
    ELSE IF Len(unique_entries) + 1 >= limit
    THEN Append(unique_entries, sorted_entries[i])
    ELSE SelectLoop(sorted_entries, i + 1, limit, cutoff,
                    seen_links \cup {sorted_entries[i].link},
                    Append(unique_entries, sorted_entries[i]))

\* sorted(entries, key=lambda item: item.published, reverse=True)
SortByPublished(entries) ==
    [k \in 1..Len(entries) |->
         entries[SortDesc([i \in 1..Len(entries) |-> i], Len(entries),
                          [i \in 1..Len(entries) |-> entries[i].published])[k]]]

select_recent_entries(entries, limit, cutoff) ==
    SelectLoop(SortByPublished(entries), 1, limit, cutoff, {}, <<>>)

\* Feed entries: two share a link, two share a timestamp.
EntryA == [link |-> "uA", category |-> "c1", title |-> <<"A">>,
           published |-> 2, summary |-> <<"s">>]
EntryAOld == [link |-> "uA", category |-> "c1", title |-> <<"A0">>,
              published |-> 1, summary |-> <<>>]
EntryB == [link |-> "uB", category |-> "c2", title |-> <<"B">>,
           published |-> 2, summary |-> <<>>]
EntryC == [link |-> "uC", category |-> "c2", title |-> <<"C">>,
           published |-> 3, summary |-> <<>>]
Entries == {EntryA, EntryAOld, EntryB, EntryC}

EntryLists == DistinctSeqs(Entries, MaxEntries)
Cutoffs == {<<>>, <<2>>, <<3>>}

\* select_recent_entries(entries, limit, cutoff)
Select ==
    /\ selection = NoSelection
    /\ \E entries \in EntryLists, limit \in 0..MaxLimit, cutoff \in Cutoffs :
         selection' = [state |-> "returned", entries |-> entries,
                       limit |-> limit, cutoff |-> cutoff,
                       out |-> select_recent_entries(entries, limit, cutoff)]
    /\ UNCHANGED <<filterVars, articleRows, run>>

\* The caller drops the selection.
SelectReturn ==
    /\ selection # NoSelection
    /\ selection' = NoSelection
    /\ UNCHANGED <<filterVars, articleRows, run>>

NextSelect == Select \/ SelectReturn
SpecSelect == Init /\ [][NextSelect]_vars

----------------------------------------------------------------------------
(* runner._collect_entries with db.get_article / db.upsert_article.  An    *)
(* optional value is <<>> for None and <<v>> for v; a text is a sequence   *)
(* of characters.                                                          *)

\* articles.truncate_text(value, limit)
truncate_text(value, limit) ==
    IF Len(value) <= limit THEN value ELSE SubSeq(value, 1, limit)

\* db.get_article(session, url): None, or the row as a dict.
get_article(rows, url) ==
    IF url \in DOMAIN rows
    THEN <<[url |-> url, title |-> rows[url].title, text |-> rows[url].content,
            image |-> rows[url].image, summary |-> rows[url].summary]>>
    ELSE <<>>

\* data.get(key) for the keys "text" and "image" of a payload, which hold
\* <<v>> when present.
DataGet(data, key) == IF Has(data, key) THEN data[key] ELSE <<>>

\* db.upsert_article(session, data): data has a non-empty url; the row is
\* inserted or its title, content, image and summary are overwritten.
upsert_article(rows, data) ==
    [u \in DOMAIN rows \cup {data.url} |->
         IF u = data.url
         THEN [title |-> data.title, content |-> DataGet(data, "text"),
               image |-> DataGet(data, "image"), summary |-> <<data.summary>>]
         ELSE rows[u]]

\* The dict returned on a cache hit (runner.py 157-164).
CachedArticle(entry, cached) ==
    [url |-> cached.url, category |-> entry.category, title |-> cached.title,
     summary |-> IF cached.summary # <<>> /\ cached.summary[1] # <<>>
                 THEN cached.summary[1] ELSE entry.summary,
     text |-> cached.text, image |-> cached.image]

\* The payload built at runner.py 167-182 from the fetched content
\* [text, image], both optional.
Payload(entry, content, max_article_length) ==
    LET base == [url |-> entry.link, category |-> entry.category,
                 title |-> entry.title, summary |-> entry.summary]
        withText == IF content.text # <<>> /\ content.text[1] # <<>>
                    THEN SetField(base, "text",
                             <<truncate_text(content.text[1], max_article_length)>>)
                    ELSE base
    IN  IF content.image # <<>> THEN SetField(withText, "image", content.image)
        ELSE withText

\* process_entry(entry) of _collect_entries: the value it returns (<<>> for
\* None), whether fetch_article_content was called, and the article table
\* afterwards.  content is what fetch_article_content does for this link.
process_entry_fetching(entry, rows, content, config) ==
    IF content.raises
    THEN [res |-> <<>>, fetched |-> TRUE, rows |-> rows]
    ELSE [res |-> <<Payload(entry, content, config.max_article_length)>>,
          fetched |-> TRUE,
          rows |-> IF config.database_enabled
                   THEN upsert_article(rows,
                            Payload(entry, content, config.max_article_length))
                   ELSE rows]

\* Mutation of process_entry: the article table is not consulted.
process_entry_without_cache(entry, rows, content, config) ==
    process_entry_fetching(entry, rows, content, config)

process_entry(entry, rows, content, config) ==
    IF config.database_enabled /\ get_article(rows, entry.link) # <<>>
    THEN [res |-> <<CachedArticle(entry, get_article(rows, entry.link)[1])>>,
          fetched |-> FALSE, rows |-> rows]
    ELSE process_entry_fetching(entry, rows, content, config)

\* The loop over as_completed(future_to_entry): entries are in the order
\* their futures complete.  The entries have pairwise distinct links, so
\* their table writes touch different rows and commute.
StepEntries(acc, p) ==
    [output |-> IF p.res = <<>> THEN acc.output ELSE acc.output \o p.res,
     fetched |-> IF p.fetched THEN acc.fetched \cup {p.link} ELSE acc.fetched,
     failed |-> IF p.res = <<>> THEN acc.failed \cup {p.link} ELSE acc.failed,
     rows |-> p.rows]

RECURSIVE EntriesLoop(_, _, _, _, _)
EntriesLoop(entries, i, world, config, acc) ==
    IF i > Len(entries) THEN acc
    ELSE EntriesLoop(entries, i + 1, world, config,
             StepEntries(acc,
                 [link |-> entries[i].link] @@
                 process_entry(entries[i], acc.rows, world[entries[i].link],
                               config)))

\* process_feed(feed) of _collect_entries: any exception gives [].
process_feed(feed, limit, cutoff) ==
    IF feed.raises # "none" THEN <<>>
    ELSE IF feed.entries = <<>> THEN <<>>
    ELSE select_recent_entries(feed.entries, limit, cutoff)

\* The results of the feed futures, in the order they complete.
PerFeed(completed, limit, cutoff) ==
    [i \in 1..Len(completed) |-> process_feed(completed[i], limit, cutoff)]

\* The loop at runner.py 138-144: first entry of each link.
RECURSIVE DedupLoop(_, _, _, _)
DedupLoop(sorted_entries, i, seen_links, unique_entries) ==
    IF i > Len(sorted_entries) THEN unique_entries
    ELSE IF sorted_entries[i].link \in seen_links
         THEN DedupLoop(sorted_entries, i + 1, seen_links, unique_entries)
         ELSE DedupLoop(sorted_entries, i + 1,
                        seen_links \cup {sorted_entries[i].link},
                        Append(unique_entries, sorted_entries[i]))

\* The orders in which the futures of pairwise distinct entries complete.
CompletionOrders(entries) ==
    {p \in [1..Len(entries) -> Range(entries)] : Range(p) = Range(entries)}

\* The clock of a run, and the cutoff of runner.py 95-100.
Now == 3
Cutoff(max_age_hours) ==
    IF max_age_hours = <<>> THEN <<>> ELSE <<Now - max_age_hours[1]>>

\* What fetching and selecting does for one feed of a run.
FeedRaisesFetch == [raises |-> "fetch", entries |-> <<>>]
FeedRaisesSelect == [raises |-> "select", entries |-> <<EntryA>>]
FeedEntryLists ==
    {<<>>, <<EntryA>>, <<EntryAOld>>, <<EntryB, EntryA>>}
FeedOutcomes ==
    {FeedRaisesFetch, FeedRaisesSelect}
    \cup {[raises |-> "none", entries |-> e] : e \in FeedEntryLists}
FeedLists == UNION {[1..n -> FeedOutcomes] : n \in 0..MaxFeeds}

\* What fetch_article_content does for one link of a run.
Links == {"uA", "uB"}
LongText == <<"a", "b", "c">>
FetchRaises == [raises |-> TRUE, text |-> <<>>, image |-> <<>>]
FetchNoText == [raises |-> FALSE, text |-> <<>>, image |-> <<>>]
FetchText == [raises |-> FALSE, text |-> <<LongText>>, image |-> <<>>]
Worlds == [Links -> {FetchRaises, FetchNoText, FetchText}]

\* RunConfig: the fields _collect_entries reads.
RunConfig(limit, max_age_hours, max_article_length, database_enabled) ==
    [limit |-> limit, max_age_hours |-> max_age_hours,
     max_article_length |-> max_article_length,
     database_enabled |-> database_enabled]
RunConfigs ==
    {RunConfig(2, h, n, d) : h \in {<<>>, <<1>>}, n \in {2, 3}, d \in BOOLEAN}
    \cup {RunConfig(1, <<>>, 3, TRUE), RunConfig(2, <<0>>, 3, TRUE),
          RunConfig(0, <<>>, 3, FALSE)}

\* _collect_entries leaves: the table is written, the run is recorded.
CollectLeave(config, completed, per_feed, raised, r) ==
    /\ run' = [state |-> "returned", config |-> config,
               completed |-> completed, per_feed |-> per_feed,
               raised |-> raised, output |-> r.output,
               fetched |-> r.fetched, failed |-> r.failed,
               rowsBefore |-> articleRows]
    /\ articleRows' = r.rows
    /\ UNCHANGED <<filterVars, selection>>

CollectRaise(config, completed, per_feed, raised) ==
    CollectLeave(config, completed, per_feed, raised,
                 [output |-> <<>>, fetched |-> {}, failed |-> {},
                 rows |-> articleRows])

\* runner.py 134-205: order, deduplicate, process each entry.
CollectArticles(config, completed, world, per_feed, unique_entries) ==
    \E order \in CompletionOrders(unique_entries) :
        CollectLeave(config, completed, per_feed, "none",
            EntriesLoop(order, 1, world, config,
                [output |-> <<>>, fetched |-> {}, failed |-> {},
                 rows |-> articleRows]))

\* Mutation of CollectFeeds: one feed without entries fails the run.
CollectFeedsAllRequired(config, completed, world, per_feed) ==
    IF \E i \in 1..Len(per_feed) : per_feed[i] = <<>>
    THEN CollectRaise(config, completed, per_feed, "RuntimeError")
    ELSE CollectArticles(config, completed, world, per_feed,
             DedupLoop(SortByPublished(FlattenSeq(per_feed)), 1, {}, <<>>))

\* runner.py 121-132: gather the feed futures.
CollectFeeds(config, completed, world, per_feed) ==
    IF \A i \in 1..Len(per_feed) : per_feed[i] = <<>>
    THEN CollectRaise(config, completed, per_feed, "RuntimeError")
    ELSE CollectArticles(config, completed, world, per_feed,
             DedupLoop(SortByPublished(FlattenSeq(per_feed)), 1, {}, <<>>))

\* _collect_entries(config, session_factory), with the feeds of the
\* configuration in the order their futures complete.
CollectRun(config, completed, world) ==
    IF completed = <<>>
    THEN CollectRaise(config, completed, <<>>, "RuntimeError")
    ELSE IF config.max_age_hours # <<>> /\ config.max_age_hours[1] <= 0
    THEN CollectRaise(config, completed, <<>>, "ValueError")
    ELSE CollectFeeds(config, completed, world,
             PerFeed(completed, config.limit, Cutoff(config.max_age_hours)))

_collect_entries ==
    /\ run = NoRun
    /\ \E config \in RunConfigs, completed \in FeedLists, world \in Worlds :
         CollectRun(config, completed, world)

\* The run ends; the article table stays.
CollectReturn ==
    /\ run # NoRun
    /\ run' = NoRun
    /\ UNCHANGED <<filterVars, articleRows, selection>>

NextCollect == _collect_entries \/ CollectReturn
SpecCollect == Init /\ [][NextCollect]_vars

----------------------------------------------------------------------------
(* Vocabulary of the properties.                                           *)

Returned == pc = "returned"
OkPath == pc = "returned" /\ result.outcome = "ok"

IsPrefix(s, t) == Len(s) <= Len(t) /\ s = SubSeq(t, 1, Len(s))

Positions(s) == [i \in 1..Len(s) |-> i]

\* An invocation that got as far as embedding the articles through the
\* vector cache.
CachedEmbedCall ==
    /\ pc = "returned"
    /\ call.config.session
    /\ call.articles # <<>>
    /\ result.outcome # "no_centroids"
    /\ result.raisedAt # "centroids"

CallUrls == [i \in 1..Len(call.articles) |-> UrlKey(call.articles[i])]
CallTexts ==
    [i \in 1..Len(call.articles) |->
         _compose_article_text(call.articles[i], call.config.max_article_length)]

\* The blob the table held for article i when the invocation started.
HadRow(i) == <<CallUrls[i], call.config.model>> \in DOMAIN call.rowsBefore
RowBefore(i) == call.rowsBefore[<<CallUrls[i], call.config.model>>]

\* Calls made from the cache read on (the calls before it build centroids).
FirstGet(log) ==
    IF \E i \in 1..Len(log) : log[i].op = "get"
    THEN CHOOSE i \in 1..Len(log) :
             log[i].op = "get" /\ \A j \in 1..(i - 1) : log[j].op # "get"
    ELSE Len(log) + 1
ArticlePhase(log) == SubSeq(log, FirstGet(log), Len(log))

EmbeddedTexts(log) ==
    UNION {Range(log[i].texts) : i \in {j \in 1..Len(log) : log[j].op = "embed"}}

----------------------------------------------------------------------------
(* C1: if a step inside filter raises, filter returns exactly the input    *)
(* items, in input order, each with exactly the fields and values it had   *)
(* on input.                                                               *)
C1_FailOpenReturnsInputUnchanged ==
    (pc = "returned" /\ result.outcome = "error")
        => result.items = call.articles

C3_UndecodableBlobIsAMiss ==
    (CachedEmbedCall /\ call.fault = NoFault) =>
        LET NotAVector(i) == HadRow(i) /\ RowBefore(i).kind \in {"garbage", "null"}
            IsVector(i) == HadRow(i) /\ RowBefore(i).kind = "json"
            OtherDimension(i) == HadRow(i) /\ RowBefore(i) = ShortVecBlob
        IN  \A i \in 1..Len(call.articles) :
                NotAVector(i) =>
                    /\ CallTexts[i] \in EmbeddedTexts(ArticlePhase(result.log))
                    /\ \A j \in 1..Len(call.articles) :
                           IsVector(j) =>
                               CallTexts[j] \notin
                                   EmbeddedTexts(ArticlePhase(result.log))
                    /\ (\A j \in 1..Len(call.articles) : ~OtherDimension(j))
                           => result.outcome = "ok"

----------------------------------------------------------------------------
(* Scores as the properties state them: straight from the backend's vectors *)
(* and the invoking instance's own topics, with no cache in between.        *)

ArticleVector(model, article) ==
    Normalise(BackendVec(model,
                         _compose_article_text(article, DefaultMaxArticleLength)))

TopicCentroid(model, topic) ==
    Normalise(MeanVec([k \in 1..Len(topic.queries) |->
                           BackendVec(model, topic.queries[k])]))

\* Tabulated once: the score of every article against every topic.
ScoreTable ==
    [m \in Models |->
        [a \in Articles |->
            [t \in {Alpha, Beta, Gamma} |->
                Dot(ArticleVector(m, a), TopicCentroid(m, t))]]]

TopicScore(config, article, topic) == ScoreTable[config.model][article][topic]

BestScore(config, article) ==
    LET scores == {TopicScore(config, article, t) : t \in Range(config.queries)}
    IN  CHOOSE s \in scores : \A o \in scores : o <= s

\* The names of the topics that give the article its best score.
BestTopics(config, article) ==
    {t.name : t \in {u \in Range(config.queries) :
                         TopicScore(config, article, u) = BestScore(config, article)}}

\* The earliest of them in the instance's configured order.
FirstBestTopic(config, article) ==
    LET i == CHOOSE k \in 1..Len(config.queries) :
                 /\ config.queries[k].name \in BestTopics(config, article)
                 /\ \A j \in 1..(k - 1) :
                        config.queries[j].name \notin BestTopics(config, article)
    IN  config.queries[i].name

\* Where article a stands in the returned list (articles have distinct urls).
ReturnedAt(a) == {k \in 1..Len(result.items) : result.items[k].url = a.url}
IsReturned(a) == ReturnedAt(a) # {}
ArticleOf(item) == CHOOSE a \in Range(call.articles) : a.url = item.url

\* The returned items of one category, in returned order.
ReturnedIn(category) ==
    SelectSeq(result.items, LAMBDA x : x.category = category)
ReturnedCategories == {result.items[k].category : k \in 1..Len(result.items)}

\* The urls listed in the other_urls of the returned items, with repetition.
ListedUrls ==
    FlattenSeq([k \in 1..Len(result.items) |->
                    [e \in 1..Len(result.items[k].other_urls) |->
                         result.items[k].other_urls[e].url]])
TimesListed(url) == Cardinality({e \in 1..Len(ListedUrls) : ListedUrls[e] = url})

PassesThreshold(a) == BestScore(call.config, a) >= call.config.threshold

\* The cap cut article a: its topic's returned items fill the cap and all
\* score at least as much.
CutByCap(a) ==
    \E t \in BestTopics(call.config, a) :
        /\ Len(ReturnedIn(t)) = call.config.max_cluster_size
        /\ \A k \in 1..Len(ReturnedIn(t)) :
               ReturnedIn(t)[k].prefilter_score >= BestScore(call.config, a)

----------------------------------------------------------------------------
(* C4 as claimed: on the non-fallback path an item is returned if and only *)
(* if its best topic score is >= the threshold.                            *)
C4_ReturnedIffAtLeastThreshold ==
    OkPath =>
        \A a \in Range(call.articles) : IsReturned(a) <=> PassesThreshold(a)

(* C4 as amended: every returned item scores >= the threshold (a score     *)
(* exactly at the threshold qualifies), no item scoring below it is        *)
(* returned, and an item scoring >= the threshold is returned unless the   *)
(* per-topic cap cuts it.                                                  *)
C4_ReturnedIffAtLeastThresholdAndNotCut ==
    OkPath =>
        /\ \A a \in Range(call.articles) :
               /\ IsReturned(a) => PassesThreshold(a)
               /\ (PassesThreshold(a) /\ ~CutByCap(a)) => IsReturned(a)
        /\ \A k \in 1..Len(result.items) :
               result.items[k].prefilter_score >= call.config.threshold

C4_Witness ==
    /\ OkPath
    /\ \E a, b \in Range(call.articles) :
           /\ BestScore(call.config, a) = call.config.threshold
           /\ IsReturned(a)
           /\ PassesThreshold(b) /\ ~IsReturned(b)

(* C5: each returned item carries one category, a topic whose centroid     *)
(* gives the item its maximum score, and that maximum as prefilter_score;  *)
(* the threshold is compared with that maximum only.  Scenario A: with     *)
(* topics Alpha and Beta, Z is returned as Beta with score 0.8 at          *)
(* threshold 0.7 and is not returned at threshold 0.85.                    *)
C5_CategoryIsArgmaxAndScoreIsMax ==
    OkPath =>
        /\ \A k \in 1..Len(result.items) :
               LET x == result.items[k]
               IN  /\ x.prefilter_score = BestScore(call.config, ArticleOf(x))
                   /\ x.category \in BestTopics(call.config, ArticleOf(x))
        /\ \A a \in Range(call.articles) :
               BestScore(call.config, a) < call.config.threshold => ~IsReturned(a)
        /\ (/\ Range(call.config.queries) = {Alpha, Beta}
            /\ ArtZ \in Range(call.articles))
               => /\ (call.config.threshold = 700000
                         /\ call.config.max_cluster_size >= 2)
                        => \E k \in ReturnedAt(ArtZ) :
                               /\ result.items[k].category = "Beta"
                               /\ result.items[k].prefilter_score = 800000
                  /\ call.config.threshold = 850000 => ~IsReturned(ArtZ)

C5_Witness ==
    /\ OkPath
    /\ Range(call.config.queries) = {Alpha, Beta}
    /\ call.config.threshold = 700000
    /\ Range(call.articles) = {ArtX, ArtY, ArtZ}
    /\ \E k \in ReturnedAt(ArtZ) :
           result.items[k].category = "Beta"
               /\ result.items[k].prefilter_score = 800000

(* C6: when several topics give an item the same maximum score, its        *)
(* category is the tied topic that comes first in the invoking instance's  *)
(* own configured topic order, for every invocation of any instance in the *)
(* process.                                                                *)
C6_TieGoesToEarliestConfiguredTopic ==
    OkPath =>
        \A k \in 1..Len(result.items) :
            result.items[k].category =
                FirstBestTopic(call.config, ArticleOf(result.items[k]))

(* C7: when filter is called with a cluster_threshold, near-duplicates are  *)
(* merged and only one kernel per cluster is returned as a top-level item. *)
(* Scenario B: P = X, Q, R = Y with cluster_threshold 0.99 give exactly 2  *)
(* returned items, the merged kernel carrying exactly one other_urls       *)
(* entry.                                                                  *)
C7_ClusterThresholdReturnsKernelsOnly ==
    (OkPath /\ call.cluster_threshold # <<>>) =>
        /\ \A k \in 1..Len(result.items) : TimesListed(result.items[k].url) = 0
        /\ (/\ call.cluster_threshold = <<990000>>
            /\ Range(call.articles) = {ArtX, ArtQ, ArtY})
               => /\ Len(result.items) = 2
                  /\ Len(ListedUrls) = 1

(* C8 as claimed: every item that passes the threshold is exactly one of:  *)
(* a top-level kernel, an other_urls entry on its kernel, dropped by the   *)
(* cap; no item is both a top-level result and an other_urls entry, and no *)
(* item appears in two buckets.                                            *)
C8_ItemIsKernelOrListedOrDropped ==
    OkPath =>
        \A a \in Range(call.articles) :
            PassesThreshold(a) =>
                /\ Cardinality(ReturnedAt(a)) <= 1
                /\ TimesListed(a.url) <= 1
                /\ ~(IsReturned(a) /\ TimesListed(a.url) > 0)

(* C8 as amended: every item that passes the threshold is in exactly one   *)
(* bucket and is either returned exactly once as a top-level item or       *)
(* dropped by the cap; a returned item that is not the first of its bucket *)
(* is also listed exactly once, in the other_urls of the first item of its *)
(* bucket; the first item of a bucket and dropped items are listed nowhere. *)
C8_ItemIsReturnedOnceOrDropped ==
    OkPath =>
        \A a \in Range(call.articles) :
            /\ Cardinality(ReturnedAt(a)) <= 1
            /\ ~IsReturned(a) => TimesListed(a.url) = 0
            /\ (PassesThreshold(a) /\ ~IsReturned(a)) => CutByCap(a)
            /\ IsReturned(a) =>
                   LET x == result.items[CHOOSE k \in ReturnedAt(a) : TRUE]
                       top == ReturnedIn(x.category)[1]
                   IN  IF x = top THEN TimesListed(a.url) = 0
                       ELSE /\ TimesListed(a.url) = 1
                            /\ \E e \in 1..Len(top.other_urls) :
                                   top.other_urls[e].url = a.url

C8_Witness ==
    /\ OkPath
    /\ \E a, b \in Range(call.articles) :
           /\ IsReturned(a) /\ TimesListed(a.url) = 1
           /\ PassesThreshold(b) /\ ~IsReturned(b)

(* C9: on the non-fallback path, for every topic, the returned items of    *)
(* that category number at most max_cluster_size, are the highest-scoring  *)
(* items of the topic's bucket, and appear in descending score order.      *)
C9_AtMostCapPerTopicBestFirst ==
    OkPath =>
        /\ \A i \in 1..Len(call.config.queries) :
               LET kept == ReturnedIn(call.config.queries[i].name)
               IN  /\ Len(kept) <= call.config.max_cluster_size
                   /\ \A k \in 1..(Len(kept) - 1) :
                          kept[k].prefilter_score >= kept[k + 1].prefilter_score
        /\ \A a \in Range(call.articles) :
               (PassesThreshold(a) /\ ~IsReturned(a)) => CutByCap(a)

C9_Witness ==
    /\ OkPath
    /\ call.config.max_cluster_size = 2
    /\ \E t \in ReturnedCategories :
           /\ Len(ReturnedIn(t)) = 2
           /\ ReturnedIn(t)[1].prefilter_score > ReturnedIn(t)[2].prefilter_score
           /\ \E a \in Range(call.articles) :
                  /\ PassesThreshold(a) /\ ~IsReturned(a)
                  /\ t \in BestTopics(call.config, a)

(* C10: in each bucket the highest-scoring returned item carries exactly   *)
(* one {url, distance} entry for each other returned item of that bucket   *)
(* (none for dropped items, itself or another bucket's items), and every   *)
(* other returned item carries an empty other_urls list.                   *)
C10_KernelListsTheOtherKeptItems ==
    OkPath =>
        \A t \in ReturnedCategories :
            LET kept == ReturnedIn(t)
                vec(x) == ArticleVector(call.config.model, ArticleOf(x))
            IN  /\ kept[1].other_urls =
                       [j \in 1..(Len(kept) - 1) |->
                            [url |-> kept[j + 1].url,
                             distance |->
                                 Round4(Max2(0, One - Cosine(vec(kept[1]),
                                                             vec(kept[j + 1]))))]]
                /\ \A k \in 2..Len(kept) : kept[k].other_urls = <<>>
                /\ \A k \in 1..(Len(kept) - 1) :
                       kept[k].prefilter_score >= kept[k + 1].prefilter_score

C10_Witness ==
    /\ OkPath
    /\ Cardinality(ReturnedCategories) = 2
    /\ \E t \in ReturnedCategories :
           /\ Len(ReturnedIn(t)) = 2
           /\ Len(ReturnedIn(t)[1].other_urls) = 1
           /\ ReturnedIn(t)[1].other_urls[1].distance > 0

----------------------------------------------------------------------------
(* C11: the embeddings table is a map keyed by (url, model).               *)

\* The url lists handed to get_embeddings; "uZ" is never stored.
DbUrlLists ==
    {<<>>} \cup {<<u>> : u \in DbUrls \cup {"uZ"}}
           \cup {<<u1, u2>> : u1 \in DbUrls \cup {"uZ"}, u2 \in DbUrls \cup {"uZ"}}

Stores(j, url, model) ==
    /\ ~upserts[j].raised
    /\ upserts[j].backend_key = model
    /\ \E i \in 1..Len(upserts[j].data) : upserts[j].data[i][1] = url

\* The last upsert that stored url under model (0: none did).
LastUpsert(url, model) ==
    LET js == {j \in 1..Len(upserts) : Stores(j, url, model)}
    IN  IF js = {} THEN 0 ELSE CHOOSE j \in js : \A k \in js : k <= j

UpsertedBlob(j, url) ==
    LET d == upserts[j].data
    IN  d[CHOOSE i \in 1..Len(d) : d[i][1] = url][2]

\* C11: after any sequence of upsert_embeddings calls, get_embeddings(urls,
\* model) holds an entry for exactly the requested urls that some upsert
\* stored under that model, and the entry is the blob of the most recent
\* such upsert; upserts under another model play no part in it.
C11_TableIsMapKeyedByUrlAndModel ==
    \A model \in Models, urls \in DbUrlLists :
        LET got == get_embeddings(embeddings, urls, model)
        IN  /\ DOMAIN got = {u \in Range(urls) : LastUpsert(u, model) # 0}
            /\ \A u \in DOMAIN got :
                   got[u] = UpsertedBlob(LastUpsert(u, model), u)

\* A blob stored under (url, model) was overwritten under the same pair, and
\* the read returns the newer one.
C11_Witness ==
    /\ Len(upserts) = 2
    /\ \E u \in DbUrls, model \in Models :
           /\ Stores(1, u, model)
           /\ Stores(2, u, model)
           /\ UpsertedBlob(1, u) # UpsertedBlob(2, u)
           /\ get_embeddings(embeddings, <<u, "uZ">>, model)
                  = [x \in {u} |-> UpsertedBlob(2, u)]

----------------------------------------------------------------------------
(* C12: the empty input.                                                   *)

EmptyCall == pc = "returned" /\ call.articles = <<>>

\* C12: filter on an empty article sequence returns an empty list and makes
\* no call to the embedding backend, to the vector cache (read or write) or
\* to the centroid builder: nothing is logged and both caches are as found.
C12_EmptyInputReturnsEmptyWithoutCalls ==
    EmptyCall =>
        /\ result.outcome = "empty"
        /\ result.items = <<>>
        /\ result.log = <<>>
        /\ cachedCentroids = call.cacheBefore
        /\ embeddings = call.rowsBefore

\* An empty call by an instance whose centroids are not cached yet and whose
\* backend would raise on its first call.
C12_Witness ==
    /\ EmptyCall
    /\ call.config.session
    /\ call.fault = EmbedFault(1)
    /\ CentroidKey(call.config) \notin DOMAIN call.cacheBefore
    /\ result.items = <<>>

----------------------------------------------------------------------------
(* C13: repeated invocations.                                              *)

Repeated == pc = "returned" /\ previous # NoPrevious

\* C13: two invocations given the same items in the same order and the same
\* configuration return identical output (items, order, categories, scores,
\* other_urls), also when the first one filled the vector cache and the
\* second one is served from it.
C13_RepeatedInvocationReturnsSameOutput ==
    Repeated => result.items = previous.result.items

----------------------------------------------------------------------------
(* C14: the shape of a returned item.                                      *)

IsList(v) == DOMAIN v = 1..Len(v)

\* C14: on the non-fallback path every returned item keeps every input field
\* other than category with its input value and carries category (a topic
\* giving the item its best score), prefilter_score (that score) and
\* other_urls (a list, possibly empty).
C14_ReturnedItemKeepsFieldsAndCarriesThree ==
    OkPath =>
        \A k \in 1..Len(result.items) :
            LET x == result.items[k]
                a == ArticleOf(x)
            IN  /\ \A f \in DOMAIN a \ {"category"} :
                       f \in DOMAIN x /\ x[f] = a[f]
                /\ {"category", "prefilter_score", "other_urls"} \subseteq DOMAIN x
                /\ x.category \in BestTopics(call.config, a)
                /\ x.prefilter_score = BestScore(call.config, a)
                /\ IsList(x.other_urls)

\* Z comes back with its feed category replaced, Q with its summary kept,
\* one item with a non-empty other_urls and one with an empty one.
C14_Witness ==
    /\ OkPath
    /\ \E k \in ReturnedAt(ArtZ) : result.items[k].category # ArtZ.category
    /\ \E k \in ReturnedAt(ArtQ) :
           /\ result.items[k].summary = ArtQ.summary
           /\ result.items[k].other_urls = <<>>
    /\ \E k \in 1..Len(result.items) : result.items[k].other_urls # <<>>

----------------------------------------------------------------------------
(* C15: the exported file and the live centroids.                          *)

\* An invocation on the non-fallback path by an instance constructed from a
\* file exported for its own model and topic set.
FromOwnFile ==
    /\ OkPath
    /\ call.query_embeddings_path.model = call.config.model
    /\ Range(call.query_embeddings_path.queries)
           = Range(QueryList(call.config.queries))

----------------------------------------------------------------------------
(* C16: the class-level centroid cache is keyed by topic set and model.    *)

\* The centroids of the signature key = <<topic set, model>>, computed live.
LiveCentroids(key) ==
    {[category |-> t[1],
      vector |-> TopicCentroid(key[2], [name |-> t[1], queries |-> t[2]])] :
         t \in key[1]}

\* C16: over any sequence of invocations by instances that differ in topic
\* set or model, every cached centroid set is the one computed from its own
\* signature, an invocation leaves every centroid set cached before it as it
\* was, and every returned item carries the score its own instance's topics
\* and model give it.
C16_CentroidsCachedPerSignature ==
    /\ \A key \in DOMAIN cachedCentroids :
           Range(cachedCentroids[key]) = LiveCentroids(key)
    /\ Returned =>
           /\ \A key \in DOMAIN call.cacheBefore :
                  /\ key \in DOMAIN cachedCentroids
                  /\ cachedCentroids[key] = call.cacheBefore[key]
           /\ DOMAIN cachedCentroids
                  \subseteq DOMAIN call.cacheBefore \cup {CentroidKey(call.config)}
           /\ result.outcome = "ok" =>
                  /\ CentroidKey(call.config) \in DOMAIN cachedCentroids
                  /\ \A k \in 1..Len(result.items) :
                         result.items[k].prefilter_score
                             = BestScore(call.config, ArticleOf(result.items[k]))

\* An instance of model m2 with topics Alpha, Gamma scores Z after the
\* centroids of the same topics under m1 and of other topics under m2 were
\* cached.
C16_Witness ==
    /\ OkPath
    /\ call.config.model = "m2"
    /\ call.config.queries = <<Alpha, Gamma>>
    /\ CentroidKey(call.config) \notin DOMAIN call.cacheBefore
    /\ CentroidKey([call.config EXCEPT !.model = "m1"]) \in DOMAIN call.cacheBefore
    /\ CentroidKey([call.config EXCEPT !.queries = <<Alpha, Beta>>])
           \in DOMAIN call.cacheBefore
    /\ IsReturned(ArtY)

\* The links selected by the feeds of the recorded run, and the items the
\* run returned for a link.
Collected == run.state = "returned" /\ run.raised = "none"
SelectedLinks == {e.link : e \in Range(FlattenSeq(run.per_feed))}
ReturnedFor(link) ==
    {i \in 1..Len(run.output) : run.output[i].url = link}
HasText(item) == Has(item, "text") /\ item.text # <<>>

\* C17: every article returned by _collect_entries has text no longer than
\* the max_article_length of the current run, an article served from the
\* article cache included.
C17_ReturnedTextWithinMaxArticleLength ==
    Collected =>
        \A i \in 1..Len(run.output) :
            HasText(run.output[i]) =>
                Len(run.output[i].text[1]) <= run.config.max_article_length

NoFeedProducedEntries ==
    \A i \in 1..Len(run.per_feed) : run.per_feed[i] = <<>>
RaisingFeedsProduceNothing ==
    \A i \in 1..Len(run.per_feed) :
        run.completed[i].raises # "none" => run.per_feed[i] = <<>>
SelectedAreReturned ==
    run.raised = "none" =>
        /\ {run.output[i].url : i \in 1..Len(run.output)}
               = SelectedLinks \ run.failed
        /\ \A link \in SelectedLinks : Cardinality(ReturnedFor(link)) <= 1

\* C19 as stated: _collect_entries raises RuntimeError if and only if no
\* feed produced any selected entry; a raising feed produces no entries and
\* the entries of the other feeds are collected and returned.
C19_RuntimeErrorIffNoSelectedEntry ==
    run.state = "returned" =>
        /\ run.raised = "RuntimeError" <=> NoFeedProducedEntries
        /\ RaisingFeedsProduceNothing
        /\ SelectedAreReturned

\* C19 amended: a run with feeds configured and a max_age_hours of zero or
\* less raises ValueError before any feed is fetched; every other run
\* behaves as C19 states.
C19_RuntimeErrorIffNoSelectedEntryForValidAge ==
    run.state = "returned" =>
        IF /\ run.completed # <<>>
           /\ run.config.max_age_hours # <<>>
           /\ run.config.max_age_hours[1] <= 0
        THEN run.raised = "ValueError" /\ run.output = <<>>
        ELSE /\ run.raised \in {"none", "RuntimeError"}
             /\ run.raised = "RuntimeError" <=> NoFeedProducedEntries
             /\ RaisingFeedsProduceNothing
             /\ SelectedAreReturned

C19_Witness ==
    /\ Collected
    /\ \E i \in 1..Len(run.completed) : run.completed[i].raises # "none"
    /\ run.failed # {}
    /\ run.output # <<>>

\* C20: for every limit >= 0, select_recent_entries returns at most limit
\* entries, with pairwise distinct links, none published before the cutoff,
\* in descending published order, each the newest entry of its link.
C20_SelectsAtMostLimitNewestDistinct ==
    selection.state = "returned" =>
        /\ Len(selection.out) <= selection.limit
        /\ \A i, j \in 1..Len(selection.out) :
               i < j => /\ selection.out[i].link # selection.out[j].link
                        /\ selection.out[i].published
                               >= selection.out[j].published
        /\ \A i \in 1..Len(selection.out) :
               /\ selection.out[i] \in Range(selection.entries)
               /\ selection.cutoff # <<>> =>
                      selection.out[i].published >= selection.cutoff[1]
               /\ \A e \in Range(selection.entries) :
                      e.link = selection.out[i].link =>
                          e.published <= selection.out[i].published


\* C21: the configured limit applies to each feed separately: every feed
\* contributes at most limit entries, chosen among its own entries, and is
\* filled up to the limit from its own entries whatever the other feeds
\* offer, so a run of F feeds returns at most F * limit articles.
FeedsWereProcessed == run.state = "returned" /\ run.per_feed # <<>>
C21_LimitAppliesPerFeed ==
    FeedsWereProcessed =>
        /\ \A i \in 1..Len(run.completed) :
               /\ Len(run.per_feed[i]) <= run.config.limit
               /\ Range(run.per_feed[i]) \subseteq Range(run.completed[i].entries)
               /\ run.completed[i].raises = "none" =>
                      \A e \in Range(run.completed[i].entries) :
                          \/ e.link \in {x.link : x \in Range(run.per_feed[i])}
                          \/ Len(run.per_feed[i]) >= run.config.limit
                          \/ /\ run.config.max_age_hours # <<>>
                             /\ e.published < Cutoff(run.config.max_age_hours)[1]
        /\ Len(run.output) <= Len(run.completed) * run.config.limit


\* C22: the other_urls list attached to a kernel is in ascending order of
\* distance and has at most max_cluster_size - 1 entries.
C22_OtherUrlsAscendingAndCapped ==
    OkPath =>
        \A k \in 1..Len(result.items) :
            /\ Len(result.items[k].other_urls) <= call.config.max_cluster_size - 1
            /\ \A e \in 1..(Len(result.items[k].other_urls) - 1) :
                   result.items[k].other_urls[e].distance
                       <= result.items[k].other_urls[e + 1].distance


\* The kernel of each bucket of a returned list: the first returned item of
\* its category.
Kernels(items) ==
    {<<items[k].category, items[k].url>> :
         k \in {n \in 1..Len(items) :
                    \A j \in 1..(n - 1) : items[j].category # items[n].category}}

\* Two invocations on the same items in different orders, neither failing.
Reordered ==
    /\ pc = "returned"
    /\ previous # NoPrevious
    /\ Range(previous.call.articles) = Range(call.articles)
    /\ previous.call.articles # call.articles
    /\ previous.result.outcome = "ok"
    /\ result.outcome = "ok"

\* C23: the kernel of a bucket does not depend on the order in which the
\* items were supplied: every permutation of the same input gives the same
\* kernel.
C23_KernelIndependentOfInputOrder ==
    Reordered => Kernels(result.items) = Kernels(previous.result.items)


\* The published time of the entry kept for a link: the newest of the
\* selected entries with that link.
PublishedOf(link) ==
    LET times == {e.published : e \in {x \in Range(FlattenSeq(run.per_feed)) :
                                           x.link = link}}
    IN  CHOOSE t \in times : \A o \in times : o <= t

\* C24: whatever the completion order of the worker threads, the articles
\* returned by _collect_entries appear in the descending-published order
\* established for their entries before fetching.
C24_OutputInDescendingPublishedOrder ==
    Collected =>
        \A i, j \in 1..Len(run.output) :
            i < j => PublishedOf(run.output[i].url)
                         >= PublishedOf(run.output[j].url)


\* The topic query strings of an instance.
QueryTexts(config) ==
    UNION {Range(config.queries[i].queries) : i \in 1..Len(config.queries)}

\* An invocation made after the centroids of its signature were built.
SignatureWasBuilt ==
    pc = "returned" /\ CentroidKey(call.config) \in DOMAIN call.cacheBefore

\* C25: once the centroids of a (topic set, model) signature have been
\* built, no later invocation of any instance with that signature hands a
\* topic query string to the embedding backend.
C25_BuiltSignatureEmbedsNoQueries ==
    SignatureWasBuilt =>
        EmbeddedTexts(result.log) \cap QueryTexts(call.config) = {}

\* An instance configured Beta-first is served the centroids an Alpha-first
\* instance built, and embeds its articles only.
C25_Witness ==
    /\ SignatureWasBuilt
    /\ call.config.queries = <<Beta, Alpha>>
    /\ call.cacheBefore[CentroidKey(call.config)][1].category = "Alpha"
    /\ result.outcome = "ok"
    /\ EmbedCallCount(result.log) = 1


\* A direct call of _embed_texts that returned, and the row its table held
\* for position i when it was called.
EmbedReturned == pc = "returned" /\ ~result.err
HadRowFor(i) == <<call.urls[i], call.config.model>> \in DOMAIN call.rowsBefore
RowFor(i) == call.rowsBefore[<<call.urls[i], call.config.model>>]

\* C26: _embed_texts returns exactly one vector per input text, the vector
\* at position i being the one of texts[i] / urls[i]: the vector the backend
\* gives for texts[i], or the vector the table held for urls[i].
C26_OneVectorPerTextInOrder ==
    EmbedReturned =>
        /\ Len(result.vectors) = Len(call.texts)
        /\ \A i \in 1..Len(call.texts) :
               /\ ~result.vectors[i].isNone
               /\ \/ result.vectors[i].v
                         = BackendVec(call.config.model, call.texts[i])
                  \/ /\ HadRowFor(i)
                     /\ RowFor(i).kind = "json"
                     /\ result.vectors[i].v = RowFor(i).val


\* C27: if the backend raises while the centroids are being built, at the
\* first topic or a later one, the centroid cache is left as it was, with no
\* entry for the signature, and the next invocation with that signature
\* starts the build again by embedding the queries of its first topic.
C27_FailedBuildCachesNothingAndIsRetried ==
    pc = "returned" =>
        /\ result.raisedAt = "centroids" =>
               /\ cachedCentroids = call.cacheBefore
               /\ CentroidKey(call.config) \notin DOMAIN cachedCentroids
        /\ (previous # NoPrevious /\ previous.result.raisedAt = "centroids") =>
               /\ result.log # <<>>
               /\ result.log[1] = EmbedCall(call.config.queries[1].queries)

\* A build that failed at its second topic is followed by an invocation that
\* builds and caches the centroids.
C27_Witness ==
    /\ pc = "returned"
    /\ previous # NoPrevious
    /\ previous.result.raisedAt = "centroids"
    /\ Len(previous.result.log) = 2
    /\ result.outcome = "ok"
    /\ CentroidKey(call.config) \in DOMAIN cachedCentroids


\* C28: in any sequence of filter invocations with the vector cache
\* enabled, a vector the cache holds for an article of the invocation was
\* stored for that same article (it is the vector of that article's text),
\* articles without a url field included.
C28_CachedVectorBelongsToTheArticle ==
    (pc = "returned" /\ call.config.session) =>
        \A i \in 1..Len(call.articles) :
            (HadRow(i) /\ RowBefore(i).kind = "json") =>
                RowBefore(i).val = BackendVec(call.config.model, CallTexts[i])


\* C29: the article cache holds an entry for a url only if the article's
\* text was extracted, and a selected article whose stored entry has no text
\* is fetched again.
C29_OnlyArticlesWithTextAreCached ==
    /\ \A url \in DOMAIN articleRows : articleRows[url].content # <<>>
    /\ (Collected /\ run.config.database_enabled) =>
           \A link \in SelectedLinks \cap DOMAIN run.rowsBefore :
               run.rowsBefore[link].content = <<>> => link \in run.fetched


\* A direct call of _embed_texts in which the backend raised.
BackendRaised ==
    /\ pc = "returned"
    /\ call.fault.kind = "embed"
    /\ EmbedCallCount(result.log) >= call.fault.n

\* C30: if the backend raises for the missing texts, the error propagates
\* out of _embed_texts and the embeddings table is exactly as it was before
\* the call: no write was attempted.
C30_BackendErrorLeavesCacheUntouched ==
    BackendRaised =>
        /\ result.err
        /\ embeddings = call.rowsBefore
        /\ \A i \in 1..Len(result.log) : result.log[i].op # "upsert"

\* The backend raises for the one missing text of a call whose other text
\* has a row.
C30_Witness ==
    /\ BackendRaised
    /\ Len(call.texts) = 2
    /\ HadRowFor(1) /\ RowFor(1).kind = "json"
    /\ ~HadRowFor(2)
    /\ Len(result.log) = 2
    /\ result.log[2].texts = <<call.texts[2]>>


====
